---- MODULE Spec2Model ----
(***************************************************************************)
(* Model of the FHE demo's transformation-and-audit-trail pipeline         *)
(* (src/services/fheSimulation.ts) and of its commentary service           *)
(* (src/services/geminiService.ts).                                        *)
(*                                                                         *)
(* Numbers.  rawValue scalars are integers, or NaN (the result of the      *)
(* scalar branch on a payload that is an object without heartRate).       *)
(* `temperature` is held in half degrees (75 stands for 37.5), so that     *)
(* every value of the model is exact in IEEE-754 binary64, as in the code. *)
(* The products v*1.5, v*1.2 and severity*0.3 are computed in binary64 by  *)
(* the code; for every integer of magnitude below 100000 the floor of the  *)
(* binary64 result equals the floor of the exact rational product, which   *)
(* is what the operators below compute.                                    *)
(***************************************************************************)
EXTENDS Integers, Sequences, FiniteSets, TLC

(* ------------------------------ bounds --------------------------------- *)
\* transforms applied to one chain
MaxChain == 3
\* identifiers the identity source can hand out, hence encryptValue calls
MaxUUIDs == 2
\* transforms applied to an envelope handed in by an external collaborator
MaxCalls == 1
\* envelope objects allocated in one behaviour
MaxHeap == 4

(* --------------------------- EncryptionState --------------------------- *)
EncryptionState == {"PLAINTEXT", "ENCRYPTED", "PROCESSED", "DECRYPTED"}

(* ------------------------------ payloads ------------------------------- *)
\* FheDataType = number | PatientVitals | CreditProfile
NaN == [kind |-> "nan"]

Scalar(v) == [kind |-> "scalar", v |-> v]

Vitals(hr, sys, temp2, o2, sev) ==
    [kind |-> "vitals", heartRate |-> hr, systolic |-> sys, diastolic |-> 80,
     temperature |-> temp2, oxygenSat |-> o2, symptomSeverity |-> sev]

\* an object payload without heartRate; fields holds Object.values(value)
Profile(fields) == [kind |-> "profile", fields |-> fields]

\* typeof x === 'object'
IsObject(p) == p.kind \in {"vitals", "profile"}

\* typeof x === 'object' && 'heartRate' in x
IsVitals(p) == p.kind = "vitals"

BaseVitals == Vitals(70, 120, 74, 98, 0)

ScenarioVitals == Vitals(110, 150, 76, 90, 40)

\* one field at a time moved to each side of its threshold, plus extremes
VitalsInputs ==
    {BaseVitals, ScenarioVitals}
    \cup {Vitals(hr, 120, 74, 98, 0) : hr \in {49, 50, 100, 101}}
    \cup {Vitals(70, sys, 74, 98, 0) : sys \in {140, 141}}
    \cup {Vitals(70, 120, t, 98, 0) : t \in {75, 76}}
    \cup {Vitals(70, 120, 74, o2, 0) : o2 \in {94, 95}}
    \cup {Vitals(70, 120, 74, 98, sev) : sev \in {-10, 9, 10, 400}}
    \cup {Vitals(200, 150, 76, 90, 40), Vitals(70, 220, 74, 98, 0)}

ScalarInputs == {Scalar(v) : v \in {-1, 0, 1, 40, 66, 67, 83, 84, 85, 500}}

ProfileInputs == {Profile(<<700, 50>>)}

PayloadInputs == VitalsInputs \cup ScalarInputs \cup ProfileInputs

\* the payloads the orchestrator wraps with encryptValue
ChainInputs == {ScenarioVitals, Vitals(70, 120, 75, 98, -10), Scalar(40), Scalar(-1)} \cup ProfileInputs

(* ------------------- randomness, clock, identity sources --------------- *)
\* One result r of Math.random(): milli = floor(r * 1000), base36 = the
\* characters of r.toString(36).  The draws are 0 and 0.999.
RandomDraws ==
    { [milli |-> 0,   base36 |-> <<"0">>],
      [milli |-> 999, base36 |-> <<"0", ".", "z", "y", "p", "c", "d", "t", "n", "w", "j", "l">>] }

\* Math.floor(Math.random() * n) for the draw r
RandomInt(r, n) == (r.milli * n) \div 1000

\* One reading of Date.now(), in milliseconds since the epoch, written
\* hi * 2^24 + lo (a reading of 2024 has hi near 102000).
TwoPow24 == 16777216

ClockReadings == { [hi |-> 101000, lo |-> 0], [hi |-> 103999, lo |-> 16777215] }

\* crypto.randomUUID(): version-4 UUIDs, taken to be unique per call.
UUIDs == 1..MaxUUIDs

(* --------------------------- CiphertextCodec --------------------------- *)
HexChar(d) ==
    <<"0", "1", "2", "3", "4", "5", "6", "7", "8", "9", "a", "b", "c", "d", "e", "f">>[d + 1]

RECURSIVE HexDigits(_)
\* the digits of n.toString(16) for an integer n >= 0
HexDigits(n) ==
    IF n < 16 THEN <<HexChar(n)>> ELSE HexDigits(n \div 16) \o <<HexChar(n % 16)>>

RECURSIVE PadLeft(_, _)
PadLeft(s, n) == IF Len(s) >= n THEN s ELSE PadLeft(<<"0">> \o s, n)

\* s.slice(-n)
SliceLast(s, n) == IF Len(s) <= n THEN s ELSE SubSeq(s, Len(s) - n + 1, Len(s))

\* s.substring(n)
Substring(s, n) == SubSeq(s, n + 1, Len(s))

RECURSIVE SumSeq(_)
SumSeq(s) == IF s = <<>> THEN 0 ELSE Head(s) + SumSeq(Tail(s))

\* twice the seed of generateCiphertext (temperature is in half degrees)
Seed2(value) ==
    IF value.kind = "scalar" THEN 2 * value.v
    ELSE IF IsVitals(value)
         THEN 2 * value.heartRate + 2 * value.systolic + value.temperature
         ELSE 2 * SumSeq(value.fields)

\* (seed * 1337 + Date.now()).toString(16), for a sum that is positive:
\* with |seed * 1337| < 2^30 and a clock reading of this century it is.
\* A sum with fractional part one half ends in ".8".
SumToString16(seed2, now) ==
    LET s2   == seed2 * 1337
        sInt == s2 \div 2
        low  == (now.lo + sInt) % TwoPow24
        hi   == now.hi + ((now.lo + sInt) \div TwoPow24)
        int  == IF hi > 0 THEN HexDigits(hi) \o PadLeft(HexDigits(low), 6)
                          ELSE HexDigits(low)
    IN  IF s2 % 2 = 1 THEN int \o <<".", "8">> ELSE int

\* the characters of the ciphertext label
generateCiphertext(value, r, now) ==
    LET noise == Substring(r.base36, 7)
        digits == IF value.kind = "nan" THEN <<"N", "a", "N">>
                  ELSE SumToString16(Seed2(value), now)
    IN  <<"c", "t", "_", "0", "x">> \o SliceLast(digits, 6) \o <<".", ".", ".">> \o noise

\* generateToyLWE adding no error to the body
generateToyLWE_NoError(msg, scale, draws) ==
    LET s == <<1, 0, 1, 0>>
        a == [i \in 1..4 |-> RandomInt(draws[i], 1000)]
        error == RandomInt(draws[5], 5) + 1
        deltaM == msg * scale
        dotProduct == SumSeq([i \in 1..4 |-> a[i] * s[i]])
        b == dotProduct + deltaM
    IN  [s |-> s, a |-> a, b |-> b, error |-> error, dotProduct |-> dotProduct, deltaM |-> deltaM]

\* generateToyLWE; draws are its five Math.random() results, in call order
generateToyLWE(msg, scale, draws) ==
    LET s == <<1, 0, 1, 0>>
        a == [i \in 1..4 |-> RandomInt(draws[i], 1000)]
        error == RandomInt(draws[5], 5) + 1
        deltaM == msg * scale
        dotProduct == SumSeq([i \in 1..4 |-> a[i] * s[i]])
        b == dotProduct + deltaM + error
    IN  [s |-> s, a |-> a, b |-> b, error |-> error, dotProduct |-> dotProduct, deltaM |-> deltaM]

(* ---------------------------- EnvelopeFactory -------------------------- *)
\* encryptValue with a constant in place of crypto.randomUUID()
encryptValue_FixedId(val, uuid, r, now) ==
    [id |-> 1,
     rawValue |-> val,
     encryptedBlob |-> generateCiphertext(val, r, now),
     state |-> "ENCRYPTED",
     history |-> <<"Initial Encryption">>]

\* the FheValue of encryptValue's result
encryptValue(val, uuid, r, now) ==
    [id |-> uuid,
     rawValue |-> val,
     encryptedBlob |-> generateCiphertext(val, r, now),
     state |-> "ENCRYPTED",
     history |-> <<"Initial Encryption">>]

(* -------------------------- ParticipantTransforms ---------------------- *)
\* Math.min(cap, x) on a number that may be NaN
MathMin(cap, x) == IF x.kind = "nan" THEN NaN ELSE Scalar(IF x.v < cap THEN x.v ELSE cap)

\* DiagnosisScore with the heart-rate thresholds taken inclusively
DiagnosisScore_NonStrict(v) ==
    (IF v.heartRate >= 100 \/ v.heartRate <= 50 THEN 20 ELSE 0)
    + (IF v.systolic > 140 THEN 20 ELSE 0)
    + (IF v.temperature > 75 THEN 25 ELSE 0)
    + (IF v.oxygenSat < 95 THEN 30 ELSE 0)
    + ((3 * v.symptomSeverity) \div 10)

\* Math.floor(score) of the structured branch of homomorphicDiagnosis
DiagnosisScore(v) ==
    (IF v.heartRate > 100 \/ v.heartRate < 50 THEN 20 ELSE 0)
    + (IF v.systolic > 140 THEN 20 ELSE 0)
    + (IF v.temperature > 75 THEN 25 ELSE 0)
    + (IF v.oxygenSat < 95 THEN 30 ELSE 0)
    + ((3 * v.symptomSeverity) \div 10)

\* newVal of homomorphicDiagnosis
DiagnosisValue(raw) ==
    IF IsVitals(raw) THEN MathMin(99, Scalar(DiagnosisScore(raw)))
    ELSE IF raw.kind = "scalar" THEN MathMin(99, Scalar((3 * raw.v) \div 2))
    ELSE MathMin(99, NaN)

\* homomorphicDiagnosis building its result without the spread of a
homomorphicDiagnosis_NewId(a, r, now) ==
    LET newVal == DiagnosisValue(a.rawValue)
    IN  [id |-> a.id + 1,
         rawValue |-> newVal,
         encryptedBlob |-> generateCiphertext(newVal, r, now),
         state |-> "PROCESSED",
         history |-> Append(a.history, "Specialist Diagnosis (NN)")]

homomorphicDiagnosis(a, r, now) ==
    LET newVal == DiagnosisValue(a.rawValue)
    IN  [a EXCEPT !.rawValue = newVal,
                  !.encryptedBlob = generateCiphertext(newVal, r, now),
                  !.state = "PROCESSED",
                  !.history = Append(a.history, "Specialist Diagnosis (NN)")]

RECURSIVE SqrtFrom(_, _)
SqrtFrom(d, r) == IF (r + 1) * (r + 1) <= d THEN SqrtFrom(d, r + 1) ELSE r

\* Math.floor(Math.sqrt(d)) for an integer d >= 0 (Math.sqrt is correctly
\* rounded, so the floor is the integer square root)
FloorSqrt(d) == SqrtFrom(d, 0)

\* LabSquares without the weight of the oxygen term
LabSquares_Unweighted(v) ==
    (v.heartRate - 70) * (v.heartRate - 70)
    + (v.systolic - 120) * (v.systolic - 120)
    + (v.oxygenSat - 98) * (v.oxygenSat - 98)

\* d_hr + d_sys + d_o2
LabSquares(v) ==
    (v.heartRate - 70) * (v.heartRate - 70)
    + (v.systolic - 120) * (v.systolic - 120)
    + (v.oxygenSat - 98) * (v.oxygenSat - 98) * 5

\* newVal of homomorphicLabAnalysis
LabValue(raw) ==
    IF IsVitals(raw) THEN MathMin(100, Scalar(FloorSqrt(LabSquares(raw))))
    ELSE IF raw.kind = "scalar" THEN MathMin(100, Scalar((6 * raw.v) \div 5))
    ELSE MathMin(100, NaN)

\* homomorphicLabAnalysis marking its result ENCRYPTED
homomorphicLabAnalysis_Reencrypts(a, r, now) ==
    LET newVal == LabValue(a.rawValue)
    IN  [a EXCEPT !.rawValue = newVal,
                  !.encryptedBlob = generateCiphertext(newVal, r, now),
                  !.state = "ENCRYPTED",
                  !.history = Append(a.history, "Lab Analysis (Stats)")]

homomorphicLabAnalysis(a, r, now) ==
    LET newVal == LabValue(a.rawValue)
    IN  [a EXCEPT !.rawValue = newVal,
                  !.encryptedBlob = generateCiphertext(newVal, r, now),
                  !.state = "PROCESSED",
                  !.history = Append(a.history, "Lab Analysis (Stats)")]

\* BillingCost taking the structured branch for every payload
BillingCost_AlwaysStructured(raw, rc) == Scalar(150 + RandomInt(rc, 50))

\* cost of homomorphicBilling; rc is the Math.random() draw of the cost
BillingCost(raw, rc) ==
    IF IsObject(raw) THEN Scalar(150 + RandomInt(rc, 50)) ELSE Scalar(50)

\* homomorphicBilling without the spread of a.history
homomorphicBilling_FreshHistory(a, rc, r, now) ==
    LET cost == BillingCost(a.rawValue, rc)
    IN  [a EXCEPT !.rawValue = cost,
                  !.encryptedBlob = generateCiphertext(cost, r, now),
                  !.state = "PROCESSED",
                  !.history = <<"Billing Generated">>]

homomorphicBilling(a, rc, r, now) ==
    LET cost == BillingCost(a.rawValue, rc)
    IN  [a EXCEPT !.rawValue = cost,
                  !.encryptedBlob = generateCiphertext(cost, r, now),
                  !.state = "PROCESSED",
                  !.history = Append(a.history, "Billing Generated")]

\* humanDoctorReview handing back the value it decrypted for the review
humanDoctorReview_Decrypts(a) ==
    [a EXCEPT !.state = "DECRYPTED",
              !.history = Append(a.history, "Human Doctor Approved")]

\* humanDoctorReview marking its result PROCESSED as the other transforms do
humanDoctorReview_Processed(a) ==
    [a EXCEPT !.state = "PROCESSED",
              !.history = Append(a.history, "Human Doctor Approved")]

humanDoctorReview(a) ==
    [a EXCEPT !.history = Append(a.history, "Human Doctor Approved")]

\* the condition under which transform t takes its structured-payload branch
StructuredBranch(t, raw) ==
    \/ t \in {"homomorphicDiagnosis", "homomorphicLabAnalysis"} /\ IsVitals(raw)
    \/ t = "homomorphicBilling" /\ IsObject(raw)

(* ------------------------------ the state ------------------------------ *)
VARIABLES
    inp,       \* the argument of the last call: a payload for encryptValue, else an envelope
    out,       \* the envelope the last call returned
    op,        \* the last call
    applied,   \* the transforms called on the chain since its encryptValue, in call order
    made,      \* the ids of the envelopes the encryptValue calls returned, in call order
    uuids,     \* the identifiers crypto.randomUUID() has handed out
    analysis,  \* the analyzeProtocolStep call
    message,   \* the generateAgentMessage call
    lwe,       \* the last generateToyLWE call: its arguments and its result
    heap       \* the envelope objects allocated so far, each as created and as it is now

vars == <<inp, out, op, applied, made, uuids, analysis, message, lwe, heap>>

NoEnvelope == [absent |-> TRUE]

Idle == [pc |-> "idle"]

NoExample == [absent |-> TRUE]

Init ==
    /\ inp = NoEnvelope
    /\ out = NoEnvelope
    /\ op = "none"
    /\ applied = <<>>
    /\ made = <<>>
    /\ uuids = {}
    /\ analysis = Idle
    /\ message = Idle
    /\ lwe = NoExample
    /\ heap = <<>>

(* ------------------------ the orchestrator's calls --------------------- *)
\* the orchestrator wraps a payload: a new chain
EncryptValue ==
    /\ \E val \in ChainInputs, uuid \in UUIDs \ uuids, r \in RandomDraws, now \in ClockReadings :
          /\ out' = encryptValue(val, uuid, r, now)
          /\ uuids' = uuids \cup {uuid}
          /\ inp' = val
    /\ op' = "encryptValue"
    /\ applied' = <<>>
    /\ made' = Append(made, out'.id)
    /\ UNCHANGED <<analysis, message, lwe, heap>>

CanTransform == out # NoEnvelope /\ Len(applied) < MaxChain

Diagnosis ==
    /\ CanTransform
    /\ \E r \in RandomDraws, now \in ClockReadings :
          out' = homomorphicDiagnosis(out, r, now)
    /\ inp' = out
    /\ op' = "homomorphicDiagnosis"
    /\ applied' = Append(applied, "homomorphicDiagnosis")
    /\ UNCHANGED <<made, uuids, analysis, message, lwe, heap>>

LabAnalysis ==
    /\ CanTransform
    /\ \E r \in RandomDraws, now \in ClockReadings :
          out' = homomorphicLabAnalysis(out, r, now)
    /\ inp' = out
    /\ op' = "homomorphicLabAnalysis"
    /\ applied' = Append(applied, "homomorphicLabAnalysis")
    /\ UNCHANGED <<made, uuids, analysis, message, lwe, heap>>

Billing ==
    /\ CanTransform
    /\ \E rc \in RandomDraws, r \in RandomDraws, now \in ClockReadings :
          out' = homomorphicBilling(out, rc, r, now)
    /\ inp' = out
    /\ op' = "homomorphicBilling"
    /\ applied' = Append(applied, "homomorphicBilling")
    /\ UNCHANGED <<made, uuids, analysis, message, lwe, heap>>

HumanReview ==
    /\ CanTransform
    /\ out' = humanDoctorReview(out)
    /\ inp' = out
    /\ op' = "humanDoctorReview"
    /\ applied' = Append(applied, "humanDoctorReview")
    /\ UNCHANGED <<made, uuids, analysis, message, lwe, heap>>

\* one chain after another, each started by encryptValue
Next == EncryptValue \/ Diagnosis \/ LabAnalysis \/ Billing \/ HumanReview

Spec == Init /\ [][Next]_vars

(* ------------- envelopes handed in by an external collaborator --------- *)
\* No transform validates its input: the orchestrator may pass an envelope
\* in any state, with any payload and history.
ExternalHistories ==
    { <<>>, <<"Initial Encryption">>, <<"Initial Encryption", "Lab Analysis (Stats)">> }

ExternalEnvelopes ==
    { [id |-> 1,
       rawValue |-> raw,
       encryptedBlob |-> <<"c", "t", "_", "0", "x", "0", "0", "0", "0", "0", "0", ".", ".", ".", "k">>,
       state |-> st,
       history |-> h] :
      raw \in PayloadInputs \cup {NaN}, st \in EncryptionState, h \in ExternalHistories }

InitAny ==
    /\ inp = NoEnvelope
    /\ out \in ExternalEnvelopes
    /\ op = "external"
    /\ applied = <<>>
    /\ made = <<>>
    /\ uuids = {}
    /\ analysis = Idle
    /\ message = Idle
    /\ lwe = NoExample
    /\ heap = <<>>

AnyDiagnosis == Len(applied) < MaxCalls /\ Diagnosis

AnyLabAnalysis == Len(applied) < MaxCalls /\ LabAnalysis

AnyBilling == Len(applied) < MaxCalls /\ Billing

AnyHumanReview == Len(applied) < MaxCalls /\ HumanReview

NextAny == AnyDiagnosis \/ AnyLabAnalysis \/ AnyBilling \/ AnyHumanReview

\* single calls on arbitrary envelopes
SpecAny == InitAny /\ [][NextAny]_vars

(* --------------------------- commentary service ------------------------ *)
\* JavaScript values of the service, as records
Undefined == [t |-> "undefined"]

Null == [t |-> "null"]

Str(x) == [t |-> "string", s |-> x]

Obj(a, n) == [t |-> "object", analysis |-> a, securityScore |-> n]

\* the completion of a block of code: a value returned, an error thrown, or
\* a suspension at the await of the remote call
Return(v) == [kind |-> "return", value |-> v]

Throw(e) == [kind |-> "throw", error |-> e]

Await(req) == [kind |-> "await", request |-> req]

\* process.env.API_KEY
ApiKeys == {Undefined, Str(""), Str("k3y")}

\* new GoogleGenAI({ apiKey })
ClientOutcomes == {Return(Str("client")), Throw("client construction")}

\* !x for the values a key or a response text can be
Falsy(x) == x.t \in {"undefined", "null"} \/ x = Str("")

getClient(apiKey, client) ==
    IF Falsy(apiKey) THEN Throw("API Key not found") ELSE client

\* response.text of a fulfilled generateContent call
ResponseTexts ==
    { Undefined, Str(""), Str("{\"analysis\":\"sound\",\"securityScore\":90}"),
      Str("null"), Str("I cannot help with that") }

\* how the promise of generateContent settles
RemoteOutcomes == {Return(text) : text \in ResponseTexts} \cup {Throw("remote rejection")}

JSONParse(text) ==
    IF text = Str("{\"analysis\":\"sound\",\"securityScore\":90}") THEN Return(Obj("sound", 90))
    ELSE IF text = Str("null") THEN Return(Null)
    ELSE Throw("SyntaxError")

AnalysisFallback ==
    Obj("Unable to contact verification oracle. Protocol continuing in trustless mode.", 50)

MessageFallback == Str("Processing encrypted stream...")

\* try { body } catch { return fallback }
TryCatch(body, fallback) == IF body.kind = "throw" THEN Return(fallback) ELSE body

\* lastLogs.map(l => `[${l.source}] ${l.action}: ${l.details}`), one element a line
LogsContext(lastLogs) ==
    [i \in 1..Len(lastLogs) |-> <<lastLogs[i].source, lastLogs[i].action, lastLogs[i].details>>]

LogInputs ==
    { <<>>,
      <<[source |-> "Patient", action |-> "ENCRYPT", details |-> "vitals"]>>,
      <<[source |-> "Patient", action |-> "ENCRYPT", details |-> "vitals"],
        [source |-> "Specialist", action |-> "COMPUTE", details |-> "diagnosis"]>> }

\* analyzeProtocolStep up to its await
analyzeStart(lastLogs, apiKey, client) ==
    LET ai == getClient(apiKey, client)
    IN  TryCatch(IF ai.kind = "throw" THEN ai ELSE Await(LogsContext(lastLogs)),
                 AnalysisFallback)

\* analyzeResume with JSON.parse after the try block
analyzeResume_ParseOutsideTry(remote) ==
    LET c == TryCatch(IF remote.kind = "throw" THEN remote ELSE Return(remote.value),
                      AnalysisFallback)
    IN  IF remote.kind = "throw" THEN c
        ELSE IF Falsy(c.value) THEN Return(Null)
        ELSE JSONParse(c.value)

\* analyzeProtocolStep from the settling of generateContent on
analyzeResume(remote) ==
    TryCatch(IF remote.kind = "throw" THEN remote
             ELSE IF Falsy(remote.value) THEN Return(Null)
             ELSE JSONParse(remote.value),
             AnalysisFallback)

RoleInputs == {"Specialist", "Billing"}

\* generateAgentMessage up to its await
messageStart(role, context, apiKey, client) ==
    LET ai == getClient(apiKey, client)
    IN  TryCatch(IF ai.kind = "throw" THEN ai ELSE Await(<<role, context>>),
                 MessageFallback)

\* generateAgentMessage from the settling of generateContent on
messageResume(remote) ==
    TryCatch(IF remote.kind = "throw" THEN remote ELSE Return(remote.value),
             MessageFallback)

\* the promise of an async function after its body completed as c; cause is
\* what the body last consumed
Promise(c, cause) ==
    IF c.kind = "await" THEN [pc |-> "awaiting", request |-> c.request]
    ELSE IF c.kind = "return" THEN [pc |-> "fulfilled", value |-> c.value, cause |-> cause]
    ELSE [pc |-> "rejected", error |-> c.error, cause |-> cause]

AnalyzeCall ==
    /\ analysis.pc # "awaiting"
    /\ \E lastLogs \in LogInputs, apiKey \in ApiKeys, client \in ClientOutcomes :
          analysis' = Promise(analyzeStart(lastLogs, apiKey, client), getClient(apiKey, client))
    /\ UNCHANGED <<inp, out, op, applied, made, uuids, message, lwe, heap>>

AnalyzeSettle ==
    /\ analysis.pc = "awaiting"
    /\ \E remote \in RemoteOutcomes : analysis' = Promise(analyzeResume(remote), remote)
    /\ UNCHANGED <<inp, out, op, applied, made, uuids, message, lwe, heap>>

MessageCall ==
    /\ message.pc # "awaiting"
    /\ \E role \in RoleInputs, apiKey \in ApiKeys, client \in ClientOutcomes :
          message' = Promise(messageStart(role, "encrypted vitals", apiKey, client),
                             getClient(apiKey, client))
    /\ UNCHANGED <<inp, out, op, applied, made, uuids, analysis, lwe, heap>>

MessageSettle ==
    /\ message.pc = "awaiting"
    /\ \E remote \in RemoteOutcomes : message' = Promise(messageResume(remote), remote)
    /\ UNCHANGED <<inp, out, op, applied, made, uuids, analysis, lwe, heap>>

NextOracle == AnalyzeCall \/ AnalyzeSettle \/ MessageCall \/ MessageSettle

\* the two service calls, interleaved at their awaits
SpecOracle == Init /\ [][NextOracle]_vars

(* ------------------------- envelopes as objects ------------------------ *)
\* The argument object a of a transform after the call, label being the
\* label the call appends.  Every transform builds its result as a new
\* object literal { ...a, ... } with a new array [...a.history, label]; it
\* assigns no field of a and calls no mutating method on a.history.
\* ArgumentAfter_Push is the argument after a.history.push(label).
ArgumentAfter_Push(a, label) == [a EXCEPT !.history = Append(a.history, label)]

ArgumentAfter(a, label) == a

\* a new object: the envelope as returned and as it is now, the object it
\* was built from (0 for encryptValue) and the call that built it
Cell(e, parent, by) == [orig |-> e, now |-> e, parent |-> parent, by |-> by]

HeapInputs == {ScenarioVitals, Scalar(40)}

HeapNoise == [milli |-> 999, base36 |-> <<"0", ".", "z", "y", "p", "c", "d", "t", "n", "w", "j", "l">>]

HeapClock == [hi |-> 101000, lo |-> 0]

\* the heap after a call on object k that returned res
Allocate(k, label, res, by) ==
    Append([heap EXCEPT ![k].now = ArgumentAfter(heap[k].now, label)], Cell(res, k, by))

HeapEncrypt ==
    /\ Len(heap) < MaxHeap
    /\ \E val \in HeapInputs, uuid \in UUIDs \ uuids :
          /\ heap' = Append(heap, Cell(encryptValue(val, uuid, HeapNoise, HeapClock), 0, "encryptValue"))
          /\ uuids' = uuids \cup {uuid}
    /\ UNCHANGED <<inp, out, op, applied, made, analysis, message, lwe>>

HeapDiagnosis ==
    /\ Len(heap) < MaxHeap
    /\ \E k \in 1..Len(heap) :
          heap' = Allocate(k, "Specialist Diagnosis (NN)",
                           homomorphicDiagnosis(heap[k].now, HeapNoise, HeapClock),
                           "homomorphicDiagnosis")
    /\ UNCHANGED <<inp, out, op, applied, made, uuids, analysis, message, lwe>>

HeapLabAnalysis ==
    /\ Len(heap) < MaxHeap
    /\ \E k \in 1..Len(heap) :
          heap' = Allocate(k, "Lab Analysis (Stats)",
                           homomorphicLabAnalysis(heap[k].now, HeapNoise, HeapClock),
                           "homomorphicLabAnalysis")
    /\ UNCHANGED <<inp, out, op, applied, made, uuids, analysis, message, lwe>>

HeapBilling ==
    /\ Len(heap) < MaxHeap
    /\ \E k \in 1..Len(heap), rc \in RandomDraws :
          heap' = Allocate(k, "Billing Generated",
                           homomorphicBilling(heap[k].now, rc, HeapNoise, HeapClock),
                           "homomorphicBilling")
    /\ UNCHANGED <<inp, out, op, applied, made, uuids, analysis, message, lwe>>

HeapHumanReview ==
    /\ Len(heap) < MaxHeap
    /\ \E k \in 1..Len(heap) :
          heap' = Allocate(k, "Human Doctor Approved", humanDoctorReview(heap[k].now),
                           "humanDoctorReview")
    /\ UNCHANGED <<inp, out, op, applied, made, uuids, analysis, message, lwe>>

NextHeap == HeapEncrypt \/ HeapDiagnosis \/ HeapLabAnalysis \/ HeapBilling \/ HeapHumanReview

\* calls on any envelope object allocated so far, in any order
SpecHeap == Init /\ [][NextHeap]_vars

(* ----------------------------- toy LWE example ------------------------- *)
LWEMessages == {-1, 0, 40, 85}

\* 100 is the default of the scale parameter
LWEScales == {1, 100}

ToyLWE ==
    /\ \E msg \in LWEMessages, scale \in LWEScales, draws \in [1..5 -> RandomDraws] :
          lwe' = [message |-> msg, scale |-> scale, result |-> generateToyLWE(msg, scale, draws)]
    /\ UNCHANGED <<inp, out, op, applied, made, uuids, analysis, message, heap>>

NextLWE == ToyLWE

\* calls of generateToyLWE
SpecLWE == Init /\ [][NextLWE]_vars

(* ------------------------------- claims -------------------------------- *)
Transforms ==
    {"homomorphicDiagnosis", "homomorphicLabAnalysis", "homomorphicBilling", "humanDoctorReview"}

\* the history label documented for each transform
LabelOf(t) ==
    CASE t = "homomorphicDiagnosis" -> "Specialist Diagnosis (NN)"
      [] t = "homomorphicLabAnalysis" -> "Lab Analysis (Stats)"
      [] t = "homomorphicBilling" -> "Billing Generated"
      [] t = "humanDoctorReview" -> "Human Doctor Approved"

\* the documented ordering PLAINTEXT < ENCRYPTED < PROCESSED < DECRYPTED
StateRank(st) ==
    CASE st = "PLAINTEXT" -> 0
      [] st = "ENCRYPTED" -> 1
      [] st = "PROCESSED" -> 2
      [] st = "DECRYPTED" -> 3

\* C1: in a chain started by encryptValue, after N transform calls the
\* history has length N+1 and is 'Initial Encryption' followed by the labels
\* of the transforms in call order; each call appends exactly one label to
\* the history of its input, which stays a prefix.
C1_HistoryRecordsCalls ==
    out # NoEnvelope =>
        /\ Len(out.history) = Len(applied) + 1
        /\ out.history = <<"Initial Encryption">> \o [i \in 1..Len(applied) |-> LabelOf(applied[i])]
        /\ op \in Transforms =>
              /\ Len(out.history) = Len(inp.history) + 1
              /\ SubSeq(out.history, 1, Len(inp.history)) = inp.history
              /\ out.history[Len(out.history)] = LabelOf(op)

C1_Witness ==
    /\ applied = <<"homomorphicBilling", "humanDoctorReview", "homomorphicDiagnosis">>
    /\ out.history = <<"Initial Encryption", "Billing Generated", "Human Doctor Approved",
                       "Specialist Diagnosis (NN)">>

\* C2 as claimed: whatever the state of the input envelope, no transform
\* returns an envelope in an earlier state than its input's.
C2_StateNeverEarlier ==
    op \in Transforms => StateRank(out.state) >= StateRank(inp.state)

\* C2 as amended: for an input in state PLAINTEXT, ENCRYPTED or PROCESSED no
\* transform returns an earlier state, and humanDoctorReview never does; on
\* a DECRYPTED input diagnosis, lab analysis and billing return PROCESSED.
C2_StateNeverEarlierUnlessDecrypted ==
    op \in Transforms =>
        /\ inp.state # "DECRYPTED" \/ op = "humanDoctorReview" =>
              StateRank(out.state) >= StateRank(inp.state)
        /\ inp.state = "DECRYPTED" /\ op # "humanDoctorReview" => out.state = "PROCESSED"

C2_Witness ==
    /\ op = "homomorphicLabAnalysis"
    /\ inp.state = "PLAINTEXT"
    /\ out.state = "PROCESSED"

\* C3: every envelope of a chain started by encryptValue is ENCRYPTED or
\* PROCESSED: ENCRYPTED until the first diagnosis, lab analysis or billing
\* call, PROCESSED from that call on; humanDoctorReview leaves the state alone.
C3_CoreNeverDecrypts ==
    out # NoEnvelope =>
        /\ out.state \in {"ENCRYPTED", "PROCESSED"}
        /\ out.state = "PROCESSED" <=>
              \E i \in 1..Len(applied) : applied[i] # "humanDoctorReview"
        /\ op = "humanDoctorReview" => out.state = inp.state

C3_Witness ==
    /\ applied = <<"humanDoctorReview", "homomorphicLabAnalysis", "humanDoctorReview">>
    /\ inp.state = "PROCESSED"
    /\ out.state = "PROCESSED"

\* C4: for an input envelope of any payload shape and any state,
\* humanDoctorReview returns the same rawValue and state, and the input
\* history with the one label 'Human Doctor Approved' appended.
C4_ReviewKeepsValueAndState ==
    op = "humanDoctorReview" =>
        /\ out.rawValue = inp.rawValue
        /\ out.state = inp.state
        /\ out.history = inp.history \o <<"Human Doctor Approved">>

C4_Witness ==
    /\ op = "humanDoctorReview"
    /\ inp.state = "DECRYPTED"
    /\ inp.rawValue = ScenarioVitals
    /\ out.state = "DECRYPTED"
    /\ out.rawValue = ScenarioVitals

\* v lies in lo..hi, for a rawValue that is a number
InRange(x, lo, hi) == x.kind = "scalar" /\ lo <= x.v /\ x.v <= hi

\* C5: for every scalar input, zero and negative values included, diagnosis
\* returns a value in [0,99], lab analysis a value in [0,100], and billing
\* exactly 50.
C5_ScalarResultsInRange ==
    op \in Transforms /\ inp.rawValue.kind = "scalar" =>
        /\ op = "homomorphicDiagnosis" => InRange(out.rawValue, 0, 99)
        /\ op = "homomorphicLabAnalysis" => InRange(out.rawValue, 0, 100)
        /\ op = "homomorphicBilling" => out.rawValue = Scalar(50)

\* C6: for every vitals input, whatever its numbers, billing returns a value
\* in [150,199], diagnosis a value in [0,99] and lab analysis a value in
\* [0,100].
C6_VitalsResultsInRange ==
    op \in Transforms /\ inp.rawValue.kind = "vitals" =>
        /\ op = "homomorphicBilling" => InRange(out.rawValue, 150, 199)
        /\ op = "homomorphicDiagnosis" => InRange(out.rawValue, 0, 99)
        /\ op = "homomorphicLabAnalysis" => InRange(out.rawValue, 0, 100)

\* 1 when b holds, else 0
Ind(b) == IF b THEN 1 ELSE 0

\* r = min(cap, floor(num / den)), for den > 0
IsCappedFloor(r, num, den, cap) ==
    /\ r <= cap
    /\ r < cap => r * den <= num /\ num < (r + 1) * den
    /\ r = cap => cap * den <= num

C8_LabRule ==
    op = "homomorphicLabAnalysis" =>
        LET raw == inp.rawValue
            r == out.rawValue
        IN  /\ raw.kind = "vitals" =>
                  LET d == (raw.heartRate - 70) * (raw.heartRate - 70)
                           + (raw.systolic - 120) * (raw.systolic - 120)
                           + 5 * (raw.oxygenSat - 98) * (raw.oxygenSat - 98)
                  IN  /\ r.kind = "scalar"
                      /\ 0 <= r.v /\ r.v <= 100
                      /\ r.v < 100 => r.v * r.v <= d /\ d < (r.v + 1) * (r.v + 1)
                      /\ r.v = 100 => d >= 10000
                      /\ raw = ScenarioVitals => d = 2820
            /\ raw.kind = "scalar" => r.kind = "scalar" /\ IsCappedFloor(r.v, 6 * raw.v, 5, 100)
            /\ raw = ScenarioVitals => r = Scalar(53)
            /\ raw = Scalar(40) => r = Scalar(48)

C8_Witness ==
    /\ op = "homomorphicLabAnalysis"
    /\ inp.rawValue = ScenarioVitals
    /\ out.rawValue = Scalar(53)

\* C9: encryptValue returns an envelope in state ENCRYPTED, holding the
\* payload it was given, with history ['Initial Encryption'] and an id that
\* no other encryptValue call returned.
C9_EncryptValueResult ==
    /\ \A i, j \in 1..Len(made) : i # j => made[i] # made[j]
    /\ op = "encryptValue" =>
          /\ out.state = "ENCRYPTED"
          /\ out.rawValue = inp
          /\ out.history = <<"Initial Encryption">>
          /\ out.id = made[Len(made)]

C9_Witness ==
    /\ op = "encryptValue"
    /\ Len(made) = 2
    /\ inp = ScenarioVitals
    /\ out.rawValue = ScenarioVitals

\* what analyzeProtocolStep resolves to, by what its body last consumed
AnalysisExpected(cause) ==
    IF cause.kind = "throw" THEN AnalysisFallback
    ELSE IF cause.value \in {Undefined, Str("")} THEN Null
    ELSE IF cause.value = Str("{\"analysis\":\"sound\",\"securityScore\":90}") THEN Obj("sound", 90)
    ELSE IF cause.value = Str("null") THEN Null
    ELSE AnalysisFallback

\* C10: neither service function rejects. analyzeProtocolStep resolves to
\* the parsed payload, to null on an empty response text, or to the fixed
\* fallback on a missing key, a failed client, a rejected call or an
\* unparsable text; generateAgentMessage resolves to the response text, or
\* to 'Processing encrypted stream...' on any failure.
C10_ServiceNeverRejects ==
    /\ analysis.pc # "rejected"
    /\ message.pc # "rejected"
    /\ analysis.pc = "fulfilled" => analysis.value = AnalysisExpected(analysis.cause)
    /\ message.pc = "fulfilled" =>
          message.value = IF message.cause.kind = "throw" THEN MessageFallback
                          ELSE message.cause.value

C10_Witness ==
    /\ analysis.pc = "fulfilled"
    /\ analysis.cause = Return(Str("I cannot help with that"))
    /\ analysis.value = AnalysisFallback
    /\ message.pc = "fulfilled"
    /\ message.cause = Throw("API Key not found")
    /\ message.value = MessageFallback

HexChars == {"0", "1", "2", "3", "4", "5", "6", "7", "8", "9", "a", "b", "c", "d", "e", "f"}

\* label is 'ct_0x', six hexadecimal characters, '...', and a suffix of at
\* least one character
MatchesCiphertextPattern(label) ==
    /\ Len(label) > 14
    /\ SubSeq(label, 1, 5) = <<"c", "t", "_", "0", "x">>
    /\ \A i \in 6..11 : label[i] \in HexChars
    /\ SubSeq(label, 12, 14) = <<".", ".", ".">>

\* C11: for every payload, clock reading and random draw the label
\* generateCiphertext returns is 'ct_0x', exactly six hexadecimal characters,
\* '...' and a non-empty suffix.
C11_CiphertextPattern ==
    out # NoEnvelope => MatchesCiphertextPattern(out.encryptedBlob)

\* C12: the tuple generateToyLWE returns has body = dotProduct +
\* message*scale + error, with secret [1,0,1,0], dotProduct = mask[0] +
\* mask[2], scaledMessage = message*scale, four mask entries in [0,1000)
\* and error in [1,5].
C12_ToyLWEBody ==
    lwe # NoExample =>
        LET t == lwe.result
        IN  /\ t.s = <<1, 0, 1, 0>>
            /\ Len(t.a) = 4
            /\ \A i \in 1..4 : 0 <= t.a[i] /\ t.a[i] < 1000
            /\ 1 <= t.error /\ t.error <= 5
            /\ t.deltaM = lwe.message * lwe.scale
            /\ t.dotProduct = t.a[1] + t.a[3]
            /\ t.b = t.dotProduct + lwe.message * lwe.scale + t.error

C12_Witness ==
    /\ lwe # NoExample
    /\ lwe.message = 40
    /\ lwe.scale = 100
    /\ lwe.result.a = <<999, 0, 999, 999>>
    /\ lwe.result.error = 5
    /\ lwe.result.b = 6003

\* C13: every transform returns an envelope with the id of its input, so
\* every envelope of a chain carries the id its encryptValue call assigned.
C13_IdNeverChanges ==
    out # NoEnvelope =>
        /\ out.id = made[Len(made)]
        /\ op \in Transforms => out.id = inp.id

C13_Witness ==
    /\ applied = <<"homomorphicDiagnosis", "homomorphicBilling", "humanDoctorReview">>
    /\ made = <<2, 1>>
    /\ inp.id = 1
    /\ out.id = 1

\* C14: no transform changes its argument: every envelope object keeps the
\* id, rawValue, encryptedBlob, state and history it was created with,
\* whatever calls are made on it or on other envelopes afterwards; so each
\* result has the history and state that its transform gives on the
\* argument as created, also when two transforms are applied to the same
\* envelope or the calls of two chains are interleaved.
C14_ArgumentsNeverMutated ==
    \A k \in 1..Len(heap) :
        /\ heap[k].now = heap[k].orig
        /\ heap[k].parent # 0 =>
              LET p == heap[heap[k].parent].orig
                  e == heap[k].orig
              IN  /\ e.history = p.history \o <<LabelOf(heap[k].by)>>
                  /\ e.state = IF heap[k].by = "humanDoctorReview" THEN p.state ELSE "PROCESSED"
                  /\ e.id = p.id

C14_Witness ==
    /\ Len(heap) = 4
    /\ heap[2].parent = 1 /\ heap[2].by = "homomorphicDiagnosis"
    /\ heap[3].parent = 0
    /\ heap[4].parent = 1 /\ heap[4].by = "humanDoctorReview"
    /\ heap[4].orig.history = <<"Initial Encryption", "Human Doctor Approved">>
    /\ heap[4].orig.state = "ENCRYPTED"
    /\ heap[1].now.history = <<"Initial Encryption">>

\* a diagnosis, lab analysis or billing call was made before the last call
ProcessedBefore ==
    \E i \in 1..(Len(applied) - 1) : applied[i] # "humanDoctorReview"

\* C15 as claimed: diagnosis, lab analysis and billing return a number as
\* rawValue; in a chain only the first of these calls can take the
\* structured branch, and only when the chain began with a vitals record;
\* billing after another of these calls returns exactly 50.
C15_StructuredBranchOnlyOnVitals ==
    out # NoEnvelope /\ op \in Transforms /\ op # "humanDoctorReview" =>
        /\ out.rawValue.kind \in {"scalar", "nan"}
        /\ StructuredBranch(op, inp.rawValue) =>
              ~ProcessedBefore /\ inp.rawValue.kind = "vitals"
        /\ op = "homomorphicBilling" /\ ProcessedBefore => out.rawValue = Scalar(50)

\* C15 as amended: the same, except that the chain of the one structured
\* call began with a structured record: a vitals record for diagnosis and
\* lab analysis, any object payload for billing.
C15_StructuredBranchOnlyFirst ==
    out # NoEnvelope /\ op \in Transforms /\ op # "humanDoctorReview" =>
        /\ out.rawValue.kind \in {"scalar", "nan"}
        /\ StructuredBranch(op, inp.rawValue) =>
              /\ ~ProcessedBefore
              /\ inp.rawValue.kind \in {"vitals", "profile"}
              /\ op # "homomorphicBilling" => inp.rawValue.kind = "vitals"
        /\ ~StructuredBranch(op, inp.rawValue) /\ op = "homomorphicBilling" => out.rawValue = Scalar(50)
        /\ op = "homomorphicBilling" /\ ProcessedBefore => out.rawValue = Scalar(50)

C15_Witness ==
    /\ applied = <<"humanDoctorReview", "homomorphicBilling", "homomorphicBilling">>
    /\ inp.rawValue = Scalar(199)
    /\ out.rawValue = Scalar(50)

====
